---- MODULE Spec2Model ----
(***************************************************************************)
(* TimeLogic frontend: the session mirror of AuthService, the route guards, *)
(* the HTTP interceptor, the forgot-password and login forms and the punch  *)
(* clock, as state machines.  Each component has its own specification:     *)
(*   Spec       AuthService + identity provider + guards + layout logout    *)
(*   SpecHttp   authInterceptor                                             *)
(*   SpecForgot ForgotPasswordComponent                                     *)
(*   SpecPunch  PunchClockComponent                                         *)
(*   SpecLogin  LoginComponent                                              *)
(*   SpecLoginRoute  LoginComponent opened by authGuard's redirect          *)
(*   SpecSubmit      the submit handlers of login, register, forgot-        *)
(*                   password and verify-email (SpecSubmitFair: the         *)
(*                   provider calls settle)                                 *)
(*   SpecSchedule    ScheduleOverviewComponent and the widgets' timers      *)
(*   SpecFair        Spec with the awaits of callbacks and guards settling  *)
(*   SpecRole        roleGuard and AuthService.hasAnyRole                   *)
(*   SpecPending     PendingRequestsComponent                               *)
(* Nullable values are options: None (null / absent) or Some(x).            *)
(***************************************************************************)
EXTENDS Naturals, Integers, Sequences, FiniteSets, TLC

VARIABLES
  \* ---- identity provider (Firebase Auth) and AuthService ----
  currentUser,     \* auth.currentUser: None or Some(user)
  providerReady,   \* the provider has restored the persisted session
  tokenSubject,    \* BehaviorSubject<string | null>: None or Some(token)
  localStorage,    \* [token, rememberedEmail]: each None (absent) or Some(value)
  readyEmitted,    \* readySubject (ReplaySubject(1)) holds a value
  pendingCb,       \* onIdTokenChanged callbacks awaiting user.getIdToken(): user -> count
  lastCb,          \* the callback that completed last: [seq (flips per completion), user]
  firstCb,         \* the callback of the first notification: [st, user], st is "none"
                   \* (not notified yet), "pending", "done" or "rejected"
  evCount,         \* number of provider session events so far
  \* ---- route guard evaluation ----
  guard,           \* [pc, kind, url, valid, result]
  \* ---- MainLayoutComponent.logout / AuthService.logout ----
  logoutPc,        \* "idle", "awaitSignOut", "finally", "resolved", "rejected"
  signOutOk,       \* how signOut settled
  logoutCleaned,   \* the finally block of AuthService.logout has run for this logout
  nav,             \* router.navigate calls, in order
  \* ---- authInterceptor ----
  http,            \* [pc, url, path, user, lookup, tok, failed, result]
  sends,           \* requests handed to next(), in order: [url, authorization]
  lookups,         \* number of getValidToken() calls for the current request
  reqCount,        \* requests intercepted so far
  \* ---- ForgotPasswordComponent ----
  fp,              \* [view, pc, email, touched, loading, errorMessage, sentTo, outcome,
                   \*  submits, settled, timers]
  fpMessages,      \* MessageService.add calls, in order
  \* ---- LoginComponent ----
  login,           \* [pc, email, password, rememberMe, loading, errorMessage, submits,
                   \*  value (the form value onSubmit read), result (how login settled),
                   \*  returnUrl (query parameter of the route the component is shown on)]
  loginCalls,      \* AuthService.login calls, in order
  persistence,     \* the provider's persistence mode: "default", "local" or "session"
  signIns,         \* signInWithEmailAndPassword calls, in order: [email, persistence]
  snackBar,        \* the snack bar MatSnackBar.open showed last: None or Some(snack)
  \* ---- PunchClockComponent ----
  clock,           \* wall clock read by new Date()
  punch,           \* the component's signals and fields
  events,          \* _events: the history, newest first
  announceQ,       \* pending announce() timeouts, oldest first
  \* ---- the auth pages: RegisterComponent, VerifyEmailComponent ----
  page,            \* the auth view shown: "login", "register", "forgot" or "verify"
  reg,             \* RegisterComponent: [pc, name, email, password, repeatPassword,
                   \*  touched, loading, sent, submits, outcome]
  regToast,        \* the message RegisterComponent added last: None or Some(message)
  verify,          \* VerifyEmailComponent: [pc, loading, resends, outcome]
  verifyMessages,  \* the messages VerifyEmailComponent added, in order
  unhandled,       \* handlers whose promise was rejected: a set of handler names
  \* ---- ScheduleOverviewComponent ----
  sched,           \* [view, timeoutPending, timer, intervalActive, entries]
  \* ---- roleGuard / AuthService.hasAnyRole ----
  roleCheck,       \* [claims (custom claims of the ID token), allowed, guard (what
                   \*  roleGuard returned), wanted, hasAny (what hasAnyRole returned)]
  \* ---- PendingRequestsComponent ----
  pending          \* [value (the parent's list), items (_items), emitted (events
                   \*  emitted, in order), arg (the request the last onApprove /
                   \*  onReject was called with), decisions]

authVars   == <<currentUser, providerReady, tokenSubject, readyEmitted, pendingCb, lastCb,
                 firstCb, evCount>>
guardVars  == <<guard>>
logoutVars == <<logoutPc, signOutOk, logoutCleaned>>
httpVars   == <<http, sends, lookups, reqCount>>
fpVars     == <<fp, fpMessages>>
loginVars  == <<login, loginCalls, snackBar, persistence, signIns>>
punchVars  == <<clock, punch, events, announceQ>>
regVars    == <<page, reg, regToast, verify, verifyMessages, unhandled>>
schedVars  == <<sched>>
roleVars   == <<roleCheck>>
pendingVars == <<pending>>
vars == <<authVars, localStorage, guardVars, logoutVars, nav, httpVars, fpVars,
          loginVars, punchVars, regVars, schedVars, roleVars, pendingVars>>

(***************************************************************************)
(* Options and bounds                                                       *)
(***************************************************************************)
None == {}
Some(x) == {x}
Get(o) == CHOOSE x \in o : TRUE

MaxEvents == 3       \* provider session events per run
MaxNav == 2          \* router.navigate calls recorded per run

Users == {"u1", "u2"}

\* user.getIdToken() / getIdToken(user): the ID token the provider issues for a user
IdTokenOf(u) == "idToken-" \o u

Tokens == {IdTokenOf(u) : u \in Users}

PrivateUrls == {"/dashboard", "/employees", "/schedule", "/auth/verify-email"}
PublicUrls == {"/auth/login", "/auth/register", "/auth/forgot-password"}

(***************************************************************************)
(* AuthService: token holder, localStorage fallback, session callback       *)
(***************************************************************************)
\* getToken(): this.tokenSubject.value || localStorage.getItem('token')
GetToken(ts, ls) == IF ts # None THEN ts ELSE ls.token

\* getValidToken(): null without a current user, else getIdToken(user)
GetValidToken(user) == IF user = None THEN None ELSE Some(IdTokenOf(Get(user)))

\* onIdTokenChanged callback, branch user === null: it has no await, so it
\* runs to completion inside the provider's notification.
CbSignedOutKeepsStorage ==
  /\ tokenSubject' = None
  /\ localStorage' = localStorage
  /\ readyEmitted' = TRUE
  /\ lastCb' = [seq |-> 1 - lastCb.seq, user |-> None]

CbSignedOut ==
  /\ tokenSubject' = None
  /\ localStorage' = [localStorage EXCEPT !.token = None]
  /\ readyEmitted' = TRUE
  /\ lastCb' = [seq |-> 1 - lastCb.seq, user |-> None]

\* onIdTokenChanged callback, branch user !== null, after user.getIdToken() resolved
CbSignedIn(u) ==
  /\ tokenSubject' = Some(IdTokenOf(u))
  /\ localStorage' = [localStorage EXCEPT !.token = Some(IdTokenOf(u))]
  /\ readyEmitted' = TRUE
  /\ lastCb' = [seq |-> 1 - lastCb.seq, user |-> Some(u)]

\* The provider notifies the listener registered in the constructor.
Deliver(session) ==
  IF session = None
    THEN CbSignedOut /\ UNCHANGED pendingCb
    ELSE /\ pendingCb' = [pendingCb EXCEPT ![Get(session)] = @ + 1]
         /\ UNCHANGED <<tokenSubject, localStorage, readyEmitted, lastCb>>

\* The callbacks awaiting getIdToken() of one user settle in the order they
\* were started: the first notification's callback is the oldest of its user.
FirstCbSettles(u, st) ==
  IF firstCb.st = "pending" /\ firstCb.user = Some(u)
    THEN [firstCb EXCEPT !.st = st]
    ELSE firstCb

\* user.getIdToken() of a pending callback resolves: the callback finishes.
CbTokenResolved(u) ==
  /\ pendingCb[u] > 0
  /\ pendingCb' = [pendingCb EXCEPT ![u] = @ - 1]
  /\ CbSignedIn(u)
  /\ firstCb' = FirstCbSettles(u, "done")
  /\ UNCHANGED <<currentUser, providerReady, evCount, guardVars, logoutVars, nav,
                 httpVars, fpVars, loginVars, punchVars, regVars, schedVars, roleVars, pendingVars>>

\* user.getIdToken() rejects: the async callback ends with an unhandled
\* rejection before any of its writes.
CbTokenRejected(u) ==
  /\ pendingCb[u] > 0
  /\ pendingCb' = [pendingCb EXCEPT ![u] = @ - 1]
  /\ firstCb' = FirstCbSettles(u, "rejected")
  /\ UNCHANGED <<currentUser, providerReady, tokenSubject, localStorage, readyEmitted,
                 lastCb, evCount, guardVars, logoutVars, nav, httpVars, fpVars,
                 loginVars, punchVars, regVars, schedVars, roleVars, pendingVars>>

(***************************************************************************)
(* Identity provider: session events reported through onIdTokenChanged      *)
(***************************************************************************)
\* First notification: the persisted session (or none) has been restored.
ProviderRestore(session) ==
  /\ ~providerReady
  /\ evCount < MaxEvents
  /\ providerReady' = TRUE
  /\ currentUser' = session
  /\ evCount' = evCount + 1
  /\ Deliver(session)
  /\ firstCb' = [st |-> IF session = None THEN "done" ELSE "pending", user |-> session]
  /\ UNCHANGED <<guardVars, logoutVars, nav, httpVars, fpVars, loginVars, punchVars,
                 regVars, schedVars, roleVars, pendingVars>>

\* signInWithEmailAndPassword / createUserWithEmailAndPassword succeeded
ProviderSignIn(u) ==
  /\ providerReady
  /\ evCount < MaxEvents
  /\ currentUser' = Some(u)
  /\ evCount' = evCount + 1
  /\ Deliver(Some(u))
  /\ UNCHANGED <<providerReady, firstCb, guardVars, logoutVars, nav, httpVars, fpVars,
                 loginVars, punchVars, regVars, schedVars, roleVars, pendingVars>>

\* The session ends outside logout() (another tab, revoked credentials).
ProviderSignOut ==
  /\ providerReady
  /\ currentUser # None
  /\ evCount < MaxEvents
  /\ currentUser' = None
  /\ evCount' = evCount + 1
  /\ Deliver(None)
  /\ UNCHANGED <<providerReady, firstCb, guardVars, logoutVars, nav, httpVars, fpVars,
                 loginVars, punchVars, regVars, schedVars, roleVars, pendingVars>>

\* Automatic refresh of the ID token of the signed-in user
ProviderRefresh ==
  /\ providerReady
  /\ currentUser # None
  /\ evCount < MaxEvents
  /\ evCount' = evCount + 1
  /\ Deliver(currentUser)
  /\ UNCHANGED <<currentUser, providerReady, firstCb, guardVars, logoutVars, nav, httpVars,
                 fpVars, loginVars, punchVars, regVars, schedVars, roleVars, pendingVars>>

(***************************************************************************)
(* Route guards (auth.guard.ts, guest.guard.ts as wired by app.routes.ts)   *)
(***************************************************************************)
Allow == [kind |-> "true", path |-> "", returnUrl |-> None]
Redirect(path, returnUrl) == [kind |-> "urlTree", path |-> path, returnUrl |-> returnUrl]
Threw == [kind |-> "threw", path |-> "", returnUrl |-> None]
NoResult == [kind |-> "none", path |-> "", returnUrl |-> None]

GuardIdle == [pc |-> "idle", kind |-> "", url |-> "", user |-> None, valid |-> None,
              result |-> NoResult]

\* a ?? b
Nullish(a, b) == IF a # None THEN a ELSE b

\* The token each guard decides on.  authGuard (canActivate):
\*   await auth.getValidToken?.() ?? auth.getToken()
\* guestGuard:  await auth.getValidToken()
\* guestGuard as first written decided on getToken() as well
GuardTokenAlwaysFallback(kind, valid, stored) == Nullish(valid, stored)

GuardToken(kind, valid, stored) ==
  IF kind = "authGuard" THEN Nullish(valid, stored) ELSE valid

\* authGuard: token ? true : createUrlTree(['/auth/login'], {queryParams: {returnUrl: state.url}})
\* guestGuard: token ? createUrlTree(['/dashboard']) : true
GuardDecision(kind, token, url) ==
  IF kind = "authGuard"
    THEN IF token # None THEN Allow ELSE Redirect("/auth/login", Some(url))
    ELSE IF token # None THEN Redirect("/dashboard", None) ELSE Allow

\* The router evaluates a guard for a URL: the guard first awaits authReady$.
GuardStart(kind, url) ==
  /\ guard.pc = "idle"
  /\ \/ kind = "authGuard" /\ url \in PrivateUrls
     \/ kind = "guestGuard" /\ url \in PublicUrls
  /\ guard' = [GuardIdle EXCEPT !.pc = "waitReady", !.kind = kind, !.url = url]
  /\ UNCHANGED <<authVars, localStorage, logoutVars, nav, httpVars, fpVars, loginVars,
                 punchVars, regVars, schedVars, roleVars, pendingVars>>

\* The guard returns its decision on the outcome `valid` of getValidToken().
GuardDecide(valid) ==
  [guard EXCEPT !.pc = "done", !.valid = valid,
                !.result = GuardDecision(guard.kind,
                             GuardToken(guard.kind, valid, GetToken(tokenSubject, localStorage)),
                             guard.url)]

\* firstValueFrom(authReady$) resolved: getValidToken() reads auth.currentUser.
\* Without a user it returns null at once and the guard decides; with a user
\* it awaits getIdToken(user).
GuardReady ==
  /\ guard.pc = "waitReady"
  /\ readyEmitted
  /\ guard' = IF currentUser = None
                THEN GuardDecide(None)
                ELSE [guard EXCEPT !.pc = "awaitValidToken", !.user = currentUser]
  /\ UNCHANGED <<authVars, localStorage, logoutVars, nav, httpVars, fpVars, loginVars,
                 punchVars, regVars, schedVars, roleVars, pendingVars>>

\* getIdToken(user) settles: the guard decides, or the rejection escapes it.
GuardSettle(resolved) ==
  /\ guard.pc = "awaitValidToken"
  /\ guard' = IF resolved
                THEN GuardDecide(GetValidToken(guard.user))
                ELSE [guard EXCEPT !.pc = "done", !.result = Threw]
  /\ UNCHANGED <<authVars, localStorage, logoutVars, nav, httpVars, fpVars, loginVars,
                 punchVars, regVars, schedVars, roleVars, pendingVars>>

\* The router consumes the decision.
GuardDone ==
  /\ guard.pc = "done"
  /\ guard' = GuardIdle
  /\ UNCHANGED <<authVars, localStorage, logoutVars, nav, httpVars, fpVars, loginVars,
                 punchVars, regVars, schedVars, roleVars, pendingVars>>

(***************************************************************************)
(* MainLayoutComponent.logout -> AuthService.logout                          *)
(***************************************************************************)
LoginNav == [path |-> "/auth/login", replaceUrl |-> TRUE]

\* await this.auth.logout(): logout() calls signOut(this.auth) and awaits it
LayoutLogout ==
  /\ logoutPc = "idle"
  /\ readyEmitted
  /\ Len(nav) < MaxNav
  /\ logoutPc' = "awaitSignOut"
  /\ logoutCleaned' = FALSE
  /\ UNCHANGED <<authVars, localStorage, guardVars, signOutOk, nav, httpVars, fpVars,
                 loginVars, punchVars, regVars, schedVars, roleVars, pendingVars>>

\* signOut settles.  On success the provider clears its user and notifies the
\* listener when there was one.
SignOutSettle(ok) ==
  /\ logoutPc = "awaitSignOut"
  /\ logoutPc' = "finally"
  /\ signOutOk' = ok
  /\ IF ok /\ currentUser # None
       THEN currentUser' = None /\ Deliver(None)
       ELSE UNCHANGED <<currentUser, tokenSubject, localStorage, readyEmitted, lastCb,
                        pendingCb>>
  /\ UNCHANGED <<providerReady, firstCb, evCount, guardVars, logoutCleaned, nav, httpVars,
                 fpVars,
                 loginVars, punchVars, regVars, schedVars, roleVars, pendingVars>>

\* AuthService.logout as first written: await signOut(this.auth) and nothing else
LogoutFinallyNoCleanup ==
  /\ logoutPc = "finally"
  /\ logoutPc' = IF signOutOk THEN "resolved" ELSE "rejected"
  /\ UNCHANGED <<authVars, localStorage, guardVars, signOutOk, logoutCleaned, nav,
                 httpVars, fpVars, loginVars, punchVars, regVars, schedVars, roleVars, pendingVars>>

\* finally { tokenSubject.next(null); localStorage.removeItem('token') }, then
\* logout() settles the way signOut did.
LogoutFinally ==
  /\ logoutPc = "finally"
  /\ tokenSubject' = None
  /\ localStorage' = [localStorage EXCEPT !.token = None]
  /\ logoutCleaned' = TRUE
  /\ logoutPc' = IF signOutOk THEN "resolved" ELSE "rejected"
  /\ UNCHANGED <<currentUser, providerReady, readyEmitted, pendingCb, lastCb, firstCb,
                 evCount, guardVars, signOutOk, nav, httpVars, fpVars, loginVars, punchVars,
                 regVars, schedVars, roleVars, pendingVars>>

\* MainLayoutComponent.logout resumes: navigate to the login route, or let the
\* rejection of logout() propagate without navigating.
LayoutAfterLogout ==
  /\ logoutPc \in {"resolved", "rejected"}
  /\ logoutPc' = "idle"
  /\ nav' = IF logoutPc = "resolved" THEN Append(nav, LoginNav) ELSE nav
  /\ UNCHANGED <<authVars, localStorage, guardVars, signOutOk, logoutCleaned, httpVars,
                 fpVars, loginVars, punchVars, regVars, schedVars, roleVars, pendingVars>>

(***************************************************************************)
(* authInterceptor (auth.interceptor.ts)                                    *)
(***************************************************************************)
HttpIdle == [pc |-> "idle", url |-> <<>>, path |-> "", user |-> None, lookup |-> "none",
             tok |-> None, failed |-> FALSE, result |-> ""]

MaxUrlLen == 3       \* longest request URL, in characters
MaxRequests == 2     \* requests intercepted per run

UrlChars == {"a", "b"}

RECURSIVE SeqsUpTo(_, _)
\* all sequences over chars of length at most n
SeqsUpTo(chars, n) ==
  IF n = 0 THEN {<<>>}
  ELSE LET shorter == SeqsUpTo(chars, n - 1)
       IN shorter \cup {Append(s, c) : s \in {t \in shorter : Len(t) = n - 1}, c \in chars}

Urls == SeqsUpTo(UrlChars, MaxUrlLen)

\* environment.apiBaseUrl
ApiBase == <<"a", "b">>

\* String.prototype.startsWith
StartsWith(s, prefix) ==
  /\ Len(prefix) <= Len(s)
  /\ SubSeq(s, 1, Len(prefix)) = prefix

Bearer(token) == "Bearer " \o token

\* req as received, and req.clone({ setHeaders: { Authorization: `Bearer ${token}` } })
PlainReq(url) == [url |-> url, authorization |-> None]
AuthReq(url, token) ==
  [url |-> url, authorization |-> IF token # None THEN Some(Bearer(Get(token))) ELSE None]

\* The interceptor is called for an outgoing request.
Intercept(url) ==
  /\ http.pc = "idle"
  /\ reqCount < MaxRequests
  /\ reqCount' = reqCount + 1
  /\ IF ~StartsWith(url, ApiBase)
       THEN \* return next(req)
            /\ http' = [HttpIdle EXCEPT !.pc = "awaitNext", !.url = url, !.path = "direct"]
            /\ sends' = <<PlainReq(url)>>
            /\ lookups' = 0
       ELSE \* from(auth.getValidToken()): the call reads auth.currentUser now
            /\ http' = [HttpIdle EXCEPT !.pc = "awaitToken", !.url = url, !.path = "pipe",
                                        !.user = currentUser]
            /\ sends' = <<>>
            /\ lookups' = 1
  /\ UNCHANGED <<authVars, localStorage, guardVars, logoutVars, nav, fpVars, loginVars,
                 punchVars, regVars, schedVars, roleVars, pendingVars>>

\* getValidToken() settles: switchMap forwards authReq, or catchError forwards req.
TokenSettle(resolved) ==
  /\ http.pc = "awaitToken"
  /\ resolved \/ http.user # None         \* only getIdToken(user) can reject
  /\ IF resolved
       THEN LET token == GetValidToken(http.user)
            IN /\ http' = [http EXCEPT !.pc = "awaitNext", !.path = "switchMap",
                                       !.lookup = IF token = None THEN "null" ELSE "token",
                                       !.tok = token]
               /\ sends' = Append(sends, AuthReq(http.url, token))
       ELSE /\ http' = [http EXCEPT !.pc = "awaitNext", !.path = "catchError",
                                    !.lookup = "rejected", !.failed = TRUE]
            /\ sends' = Append(sends, PlainReq(http.url))
  /\ UNCHANGED <<authVars, localStorage, guardVars, logoutVars, nav, lookups, reqCount,
                 fpVars, loginVars, punchVars, regVars, schedVars, roleVars, pendingVars>>

\* What the pipe does when the observable returned by next() errors:
\* inside switchMap the error reaches catchError, which returns next(req).
OnNextError(path) == IF path = "switchMap" THEN "resend" ELSE "surface"

\* The request handed to next() completes or fails.
NextSettle(ok) ==
  /\ http.pc = "awaitNext"
  /\ IF ok
       THEN /\ http' = [http EXCEPT !.pc = "done", !.result = "response"]
            /\ UNCHANGED sends
       ELSE IF OnNextError(http.path) = "resend"
         THEN /\ http' = [http EXCEPT !.path = "catchError", !.failed = TRUE]
              /\ sends' = Append(sends, PlainReq(http.url))
         ELSE /\ http' = [http EXCEPT !.pc = "done", !.result = "error", !.failed = TRUE]
              /\ UNCHANGED sends
  /\ UNCHANGED <<authVars, localStorage, guardVars, logoutVars, nav, lookups, reqCount,
                 fpVars, loginVars, punchVars, regVars, schedVars, roleVars, pendingVars>>

\* The caller has received the response or the error.
HttpDone ==
  /\ http.pc = "done"
  /\ http' = [http EXCEPT !.pc = "idle"]
  /\ UNCHANGED <<authVars, localStorage, guardVars, logoutVars, nav, sends, lookups,
                 reqCount, fpVars, loginVars, punchVars, regVars, schedVars, roleVars, pendingVars>>

(***************************************************************************)
(* Form values and validators (Validators.required / email / minLength)     *)
(***************************************************************************)
MaxEmailLen == 3     \* longest email typed into a form, in characters

\* what is typed into the forgot-password form, and into the login form
EmailChars == {"a", "A", "@", " "}
Emails == SeqsUpTo(EmailChars, MaxEmailLen)
LoginEmails == SeqsUpTo({"a", "@"}, MaxEmailLen)

\* a dot-atom / a dotted host name over the letters: non-empty runs of letters
\* separated by single dots
IsDotted(s) ==
  /\ Len(s) > 0
  /\ \A i \in 1..Len(s) : s[i] \in {"a", "A", "."}
  /\ s[1] # "." /\ s[Len(s)] # "."
  /\ \A i \in 1..(Len(s) - 1) : ~(s[i] = "." /\ s[i + 1] = ".")

\* the pattern Validators.email tests: local-part "@" domain
EmailPattern(s) ==
  \E k \in 1..Len(s) :
    /\ s[k] = "@"
    /\ IsDotted(SubSeq(s, 1, k - 1))
    /\ IsDotted(SubSeq(s, k + 1, Len(s)))

\* errors of a control built with [Validators.required, Validators.email]
EmailErrors(v) ==
  (IF Len(v) = 0 THEN {"required"} ELSE {})
    \cup (IF Len(v) > 0 /\ ~EmailPattern(v) THEN {"email"} ELSE {})

RECURSIVE TrimLeft(_)
TrimLeft(s) == IF Len(s) > 0 /\ Head(s) = " " THEN TrimLeft(Tail(s)) ELSE s

RECURSIVE TrimRight(_)
TrimRight(s) ==
  IF Len(s) > 0 /\ s[Len(s)] = " " THEN TrimRight(SubSeq(s, 1, Len(s) - 1)) ELSE s

\* String.prototype.trim
Trim(s) == TrimRight(TrimLeft(s))

\* String.prototype.toLowerCase
ToLowerCase(s) == [i \in 1..Len(s) |-> IF s[i] = "A" THEN "a" ELSE s[i]]

(***************************************************************************)
(* ForgotPasswordComponent and AuthService.requestPasswordReset             *)
(***************************************************************************)
MaxSubmits == 2      \* form submissions per run

\* how sendPasswordResetEmail can settle at the provider
ResetOutcomes == {"sent", "auth/user-not-found", "auth/network-request-failed"}

\* requestPasswordReset: swallows auth/user-not-found, rethrows anything else
RequestPasswordReset(outcome) ==
  IF outcome \in {"sent", "auth/user-not-found"} THEN "resolved" ELSE "rejected"

SuccessToast ==
  [severity |-> "success", summary |-> "Revisa tu correo",
   detail |-> "Si existe una cuenta con ese email, te hemos enviado instrucciones.",
   life |-> 4000]

\* a catch branch that reports the failure instead
FpToastRevealsFailure(serviceResult) ==
  IF serviceResult = "resolved"
    THEN SuccessToast
    ELSE [severity |-> "error", summary |-> "Error",
          detail |-> "No se pudo enviar el correo.", life |-> 4000]

\* the message added in the try branch and in the catch branch
FpToast(serviceResult) ==
  IF serviceResult = "resolved" THEN SuccessToast ELSE SuccessToast

\* the component as constructed
FpFresh == [view |-> "alive", pc |-> "idle", email |-> <<>>, touched |-> FALSE,
            loading |-> FALSE, errorMessage |-> None, sentTo |-> None, outcome |-> "",
            submits |-> 0, settled |-> 0, timers |-> 0]

\* the user edits the email field
FpSetEmail(e) ==
  /\ fp.view = "alive"
  /\ fp.pc = "idle"
  /\ fp' = [fp EXCEPT !.email = e]
  /\ UNCHANGED <<authVars, localStorage, guardVars, logoutVars, nav, httpVars, fpMessages,
                 loginVars, punchVars, regVars, schedVars, roleVars, pendingVars>>

\* onSubmit up to the await
FpSubmit ==
  /\ fp.view = "alive"
  /\ fp.pc = "idle"
  /\ fp.submits < MaxSubmits
  /\ IF EmailErrors(fp.email) # {}
       THEN \* markAllAsTouched(); focus; return
            fp' = [fp EXCEPT !.submits = @ + 1, !.touched = TRUE]
       ELSE fp' = [fp EXCEPT !.submits = @ + 1, !.loading = TRUE, !.errorMessage = None,
                             !.sentTo = Some(ToLowerCase(Trim(fp.email))),
                             !.pc = "awaitReset"]
  /\ UNCHANGED <<authVars, localStorage, guardVars, logoutVars, nav, httpVars, fpMessages,
                 loginVars, punchVars, regVars, schedVars, roleVars, pendingVars>>

\* sendPasswordResetEmail settles; onSubmit resumes in try or in catch, adds
\* the message, schedules the navigation and runs finally.
FpResetSettle(outcome) ==
  /\ fp.pc = "awaitReset"
  /\ fpMessages' = Append(fpMessages, FpToast(RequestPasswordReset(outcome)))
  /\ fp' = [fp EXCEPT !.pc = "idle", !.outcome = outcome, !.settled = @ + 1,
                      !.timers = @ + 1, !.loading = FALSE]
  /\ UNCHANGED <<authVars, localStorage, guardVars, logoutVars, nav, httpVars, loginVars,
                 punchVars, regVars, schedVars, roleVars, pendingVars>>

\* a 400 ms timeout fires: router.navigate(['/auth/login'], { replaceUrl: true })
FpTimerFire ==
  /\ fp.timers > 0
  /\ nav' = Append(nav, LoginNav)
  /\ fp' = [fp EXCEPT !.timers = @ - 1, !.view = "left"]
  /\ UNCHANGED <<authVars, localStorage, guardVars, logoutVars, httpVars, fpMessages,
                 loginVars, punchVars, regVars, schedVars, roleVars, pendingVars>>

(***************************************************************************)
(* LoginComponent (login.component.ts)                                      *)
(***************************************************************************)
PasswordMinLength == 6
MaxLoginSubmits == 2  \* login submissions per run

LoginBlank == [pc |-> "idle", email |-> <<>>, password |-> <<>>, rememberMe |-> FALSE,
               loading |-> FALSE, errorMessage |-> None, submits |-> 0,
               value |-> None, result |-> "none", returnUrl |-> None]

\* a password of n characters
PasswordOfLength(n) == [i \in 1..n |-> "p"]

Passwords == {PasswordOfLength(n) : n \in {0, PasswordMinLength - 1, PasswordMinLength}}

\* errors of a control built with [Validators.required, Validators.minLength(6)]
PasswordErrors(v) ==
  (IF Len(v) = 0 THEN {"required"} ELSE {})
    \cup (IF Len(v) > 0 /\ Len(v) < PasswordMinLength THEN {"minlength"} ELSE {})

\* a form that validates the password only
LoginFormInvalidPasswordOnly(f) == PasswordErrors(f.password) # {}

\* this.loginForm.invalid
LoginFormInvalid(f) == EmailErrors(f.email) # {} \/ PasswordErrors(f.password) # {}

\* a success branch that stays on the login route
DashboardNavToLogin == [path |-> "/auth/login", replaceUrl |-> FALSE]

\* this.router.navigate(['/dashboard'])
DashboardNav == [path |-> "/dashboard", replaceUrl |-> FALSE]

\* a constructor that restores the email and leaves the checkbox unchecked
LoginConstructedEmailOnly(ls) ==
  IF ls.rememberedEmail # None /\ Len(Get(ls.rememberedEmail)) > 0
    THEN [LoginBlank EXCEPT !.email = Get(ls.rememberedEmail)]
    ELSE LoginBlank

\* the constructor: a blank form, pre-filled from localStorage 'rememberedEmail'
LoginConstructed(ls) ==
  IF ls.rememberedEmail # None /\ Len(Get(ls.rememberedEmail)) > 0
    THEN [LoginBlank EXCEPT !.email = Get(ls.rememberedEmail), !.rememberMe = TRUE]
    ELSE LoginBlank

\* the user edits a field of the form (also while a submission is in flight)
LoginSetEmail(e) ==
  /\ login' = [login EXCEPT !.email = e]
  /\ UNCHANGED <<authVars, localStorage, guardVars, logoutVars, nav, httpVars, fpVars,
                 loginCalls, snackBar, persistence, signIns, punchVars,
                 regVars, schedVars, roleVars, pendingVars>>

LoginSetPassword(p) ==
  /\ login' = [login EXCEPT !.password = p]
  /\ UNCHANGED <<authVars, localStorage, guardVars, logoutVars, nav, httpVars, fpVars,
                 loginCalls, snackBar, persistence, signIns, punchVars,
                 regVars, schedVars, roleVars, pendingVars>>

LoginSetRememberMe(r) ==
  /\ login' = [login EXCEPT !.rememberMe = r]
  /\ UNCHANGED <<authVars, localStorage, guardVars, logoutVars, nav, httpVars, fpVars,
                 loginCalls, snackBar, persistence, signIns, punchVars,
                 regVars, schedVars, roleVars, pendingVars>>

\* AuthService.login up to signInWithEmailAndPassword: the persistence mode in
\* effect when signInWithEmailAndPassword is called.  setPersistence is called
\* only if opts is given and has the key 'remember'; if it rejects, the mode
\* stays as it was.
PersistenceAtSignIn(opts, current, setOk) ==
  IF opts # None /\ "remember" \in DOMAIN Get(opts)
    THEN IF setOk
           THEN (IF Get(opts).remember THEN "local" ELSE "session")
           ELSE current
    ELSE current

\* the opts LoginComponent.onSubmit passes to AuthService.login: none
LoginOpts(value) == None

\* onSubmit up to the await, and AuthService.login up to its await of
\* signInWithEmailAndPassword
LoginSubmit ==
  /\ login.pc = "idle"
  /\ login.submits < MaxLoginSubmits
  /\ IF LoginFormInvalid(login)
       THEN \* return
            /\ login' = [login EXCEPT !.submits = @ + 1]
            /\ UNCHANGED <<loginCalls, persistence, signIns>>
       ELSE \E setOk \in BOOLEAN :
            LET value == [email |-> login.email, password |-> login.password,
                          rememberMe |-> login.rememberMe]
                opts == LoginOpts(value)
                mode == PersistenceAtSignIn(opts, persistence, setOk)
            IN /\ login' = [login EXCEPT !.submits = @ + 1, !.loading = TRUE,
                                         !.errorMessage = None, !.pc = "awaitLogin",
                                         !.value = Some(value), !.result = "pending"]
               \* this.authService.login(email, password)
               /\ loginCalls' = Append(loginCalls,
                                       [email |-> value.email, password |-> value.password,
                                        opts |-> opts])
               /\ persistence' = mode
               /\ signIns' = Append(signIns, [email |-> value.email, persistence |-> mode])
  /\ UNCHANGED <<authVars, localStorage, guardVars, logoutVars, nav, httpVars, fpVars,
                 snackBar, punchVars, regVars, schedVars, roleVars, pendingVars>>

\* authService.login settles: the try branch or the catch branch, then finally
LoginSettle(ok) ==
  /\ login.pc = "awaitLogin"
  /\ IF ok
       THEN /\ localStorage' =
                 [localStorage EXCEPT !.rememberedEmail =
                    IF Get(login.value).rememberMe
                      THEN Some(Get(login.value).email) ELSE None]
            /\ snackBar' = Some([message |-> "¡Login correcto! Redirigiendo...",
                                  action |-> "", duration |-> 2000,
                                  panelClass |-> "snack-success"])
            /\ nav' = Append(nav, DashboardNav)
            /\ login' = [login EXCEPT !.pc = "idle", !.loading = FALSE,
                                      !.result = "resolved"]
       ELSE /\ snackBar' = Some([message |-> "Correo o contraseña incorrectos",
                                  action |-> "Cerrar", duration |-> 4000,
                                  panelClass |-> "snack-error"])
            /\ login' = [login EXCEPT !.pc = "idle", !.loading = FALSE,
                                      !.result = "rejected",
                                      !.errorMessage = Some("Correo o contraseña incorrectos")]
            /\ UNCHANGED <<localStorage, nav>>
  /\ UNCHANGED <<authVars, guardVars, logoutVars, httpVars, fpVars, loginCalls,
                 persistence, signIns, punchVars, regVars, schedVars, roleVars, pendingVars>>

\* the login route is opened again: a new LoginComponent is constructed
LoginReopen ==
  /\ login.pc = "idle"
  /\ login.submits > 0
  /\ login' = [LoginConstructed(localStorage) EXCEPT !.submits = login.submits]
  /\ UNCHANGED <<authVars, localStorage, guardVars, logoutVars, nav, httpVars, fpVars,
                 loginCalls, snackBar, persistence, signIns, punchVars,
                 regVars, schedVars, roleVars, pendingVars>>

\* The router follows authGuard's redirect: the login route is opened with the
\* query parameter returnUrl (no session exists, so guestGuard lets it match).
LoginOpenedByRedirect ==
  /\ guard.pc = "done"
  /\ guard.kind = "authGuard"
  /\ guard.result.kind = "urlTree" /\ guard.result.path = "/auth/login"
  /\ currentUser = None
  /\ login.pc = "idle"
  /\ login' = [LoginConstructed(localStorage) EXCEPT !.submits = login.submits,
                                                     !.returnUrl = guard.result.returnUrl]
  /\ guard' = GuardIdle
  /\ UNCHANGED <<authVars, localStorage, logoutVars, nav, httpVars, fpVars,
                 loginCalls, snackBar, persistence, signIns, punchVars,
                 regVars, schedVars, roleVars, pendingVars>>

(***************************************************************************)
(* humanizeFirebaseError, RegisterComponent, VerifyEmailComponent           *)
(***************************************************************************)
\* the provider codes humanizeFirebaseError has a case for
KnownCodes == {"auth/email-already-in-use", "auth/weak-password", "auth/invalid-email",
               "auth/invalid-credential", "auth/wrong-password",
               "auth/network-request-failed"}

\* codes the provider also rejects with, without a case
OtherCodes == {"auth/too-many-requests", "auth/internal-error"}

GenericMessage == "Error desconocido. Vuelve a intentarlo."

\* humanizeFirebaseError(code?: string): code is None (undefined) or Some(string)
HumanizeFirebaseError(code) ==
  IF code = None THEN GenericMessage
  ELSE LET c == Get(code) IN
    IF c = "auth/email-already-in-use" THEN "Este correo ya está registrado."
    ELSE IF c = "auth/weak-password" THEN "La contraseña es demasiado débil."
    ELSE IF c = "auth/invalid-email" THEN "El correo no es válido."
    ELSE IF c \in {"auth/invalid-credential", "auth/wrong-password"}
      THEN "Credenciales incorrectas."
    ELSE IF c = "auth/network-request-failed" THEN "Problema de red. Inténtalo de nuevo."
    ELSE GenericMessage

\* what a provider call settles with: "resolved", or an error with or without a code
ProviderErrors == {[code |-> Some(c)] : c \in KnownCodes \cup OtherCodes}
                    \cup {[code |-> None]}

RegNames == {<<>>, <<"n">>, <<"n", "n">>}
RegEmails == {<<>>, <<"a", "@">>, <<"A", "@", "a">>}

RegBlank == [pc |-> "idle", name |-> <<>>, email |-> <<>>, password |-> <<>>,
             repeatPassword |-> <<>>, touched |-> FALSE, loading |-> FALSE,
             sent |-> None, submits |-> 0, outcome |-> None]

VerifyBlank == [pc |-> "idle", loading |-> FALSE, resends |-> 0, outcome |-> "none"]

\* errors of the name control: [Validators.required, Validators.minLength(2)]
NameErrors(v) ==
  (IF Len(v) = 0 THEN {"required"} ELSE {})
    \cup (IF Len(v) > 0 /\ Len(v) < 2 THEN {"minlength"} ELSE {})

\* this.registerForm.invalid: the controls' validators and the group validator
RegFormInvalid(f) ==
  \/ NameErrors(f.name) # {}
  \/ EmailErrors(f.email) # {}
  \/ PasswordErrors(f.password) # {}
  \/ Len(f.repeatPassword) = 0
  \/ f.password # f.repeatPassword

\* the message of the catch branch of RegisterComponent.onSubmit
RegErrorToast(e) ==
  [severity |-> "error", summary |-> "No se pudo registrar",
   detail |-> HumanizeFirebaseError(e.code), life |-> 4000]

RegSuccessToast ==
  [severity |-> "success", summary |-> "Registro correcto", detail |-> "", life |-> 2200]

VerifySuccessToast ==
  [severity |-> "success", summary |-> "Correo enviado", detail |-> "", life |-> 2500]

\* the user edits the register form
RegSetName(v) ==
  /\ page = "register" /\ reg.pc # "left"
  /\ reg' = [reg EXCEPT !.name = v]
  /\ UNCHANGED <<authVars, localStorage, guardVars, logoutVars, nav, httpVars, fpVars,
                 loginVars, punchVars, page, regToast, verify, verifyMessages, unhandled,
                 schedVars, roleVars, pendingVars>>

RegSetEmail(v) ==
  /\ page = "register" /\ reg.pc # "left"
  /\ reg' = [reg EXCEPT !.email = v]
  /\ UNCHANGED <<authVars, localStorage, guardVars, logoutVars, nav, httpVars, fpVars,
                 loginVars, punchVars, page, regToast, verify, verifyMessages, unhandled,
                 schedVars, roleVars, pendingVars>>

RegSetPassword(v) ==
  /\ page = "register" /\ reg.pc # "left"
  /\ reg' = [reg EXCEPT !.password = v]
  /\ UNCHANGED <<authVars, localStorage, guardVars, logoutVars, nav, httpVars, fpVars,
                 loginVars, punchVars, page, regToast, verify, verifyMessages, unhandled,
                 schedVars, roleVars, pendingVars>>

RegSetRepeatPassword(v) ==
  /\ page = "register" /\ reg.pc # "left"
  /\ reg' = [reg EXCEPT !.repeatPassword = v]
  /\ UNCHANGED <<authVars, localStorage, guardVars, logoutVars, nav, httpVars, fpVars,
                 loginVars, punchVars, page, regToast, verify, verifyMessages, unhandled,
                 schedVars, roleVars, pendingVars>>

\* RegisterComponent.onSubmit up to the await of auth.register(email, password)
RegSubmit ==
  /\ page = "register" /\ reg.pc = "idle"
  /\ reg.submits < MaxSubmits
  /\ IF RegFormInvalid(reg)
       THEN \* markAllAsTouched(); return
            reg' = [reg EXCEPT !.submits = @ + 1, !.touched = TRUE]
       ELSE reg' = [reg EXCEPT !.submits = @ + 1, !.loading = TRUE,
                               !.sent = Some([email |-> ToLowerCase(Trim(reg.email)),
                                              password |-> Trim(reg.password)]),
                               !.pc = "awaitRegister"]
  /\ UNCHANGED <<authVars, localStorage, guardVars, logoutVars, nav, httpVars, fpVars,
                 loginVars, punchVars, page, regToast, verify, verifyMessages, unhandled,
                 schedVars, roleVars, pendingVars>>

\* a handler without its finally block
RegFinallyMissing(r) == r

\* finally { this.loading.set(false) }
RegFinally(r) == [r EXCEPT !.loading = FALSE]

\* createUserWithEmailAndPassword resolved: the try branch, then finally
RegResolved ==
  /\ reg.pc = "awaitRegister"
  /\ regToast' = Some(RegSuccessToast)
  /\ nav' = Append(nav, LoginNav)
  /\ reg' = RegFinally([reg EXCEPT !.pc = "left",
                                   !.outcome = Some([kind |-> "resolved", code |-> None])])
  /\ UNCHANGED <<authVars, localStorage, guardVars, logoutVars, httpVars, fpVars,
                 loginVars, punchVars, page, verify, verifyMessages, unhandled, schedVars, roleVars, pendingVars>>

\* createUserWithEmailAndPassword rejected with e: the catch branch, then finally
RegRejected(e) ==
  /\ reg.pc = "awaitRegister"
  /\ regToast' = Some(RegErrorToast(e))
  /\ reg' = RegFinally([reg EXCEPT !.pc = "idle",
                                   !.outcome = Some([kind |-> "rejected", code |-> e.code])])
  /\ UNCHANGED <<authVars, localStorage, guardVars, logoutVars, nav, httpVars, fpVars,
                 loginVars, punchVars, page, verify, verifyMessages, unhandled, schedVars, roleVars, pendingVars>>

\* VerifyEmailComponent.resend up to the await: loading.set(true), then
\* sendEmailVerificationEmail(), which throws without a current user; resend
\* has try / finally and no catch, so that rejection leaves resend.
VerifyResend ==
  /\ page = "verify" /\ verify.pc = "idle"
  /\ verify.resends < MaxSubmits
  /\ IF currentUser = None
       THEN /\ verify' = [verify EXCEPT !.resends = @ + 1, !.loading = FALSE,
                                        !.outcome = "rejected"]
            /\ unhandled' = unhandled \cup {"resend"}
       ELSE /\ verify' = [verify EXCEPT !.resends = @ + 1, !.loading = TRUE,
                                        !.pc = "awaitSend"]
            /\ UNCHANGED unhandled
  /\ UNCHANGED <<authVars, localStorage, guardVars, logoutVars, nav, httpVars, fpVars,
                 loginVars, punchVars, page, reg, regToast, verifyMessages, schedVars, roleVars, pendingVars>>

\* sendEmailVerification settles: the rest of try, then finally
VerifySettle(ok) ==
  /\ verify.pc = "awaitSend"
  /\ IF ok
       THEN /\ verifyMessages' = Append(verifyMessages, VerifySuccessToast)
            /\ UNCHANGED unhandled
       ELSE /\ UNCHANGED verifyMessages
            /\ unhandled' = unhandled \cup {"resend"}
  /\ verify' = [verify EXCEPT !.pc = "idle", !.loading = FALSE,
                              !.outcome = IF ok THEN "resolved" ELSE "rejected"]
  /\ UNCHANGED <<authVars, localStorage, guardVars, logoutVars, nav, httpVars, fpVars,
                 loginVars, punchVars, page, reg, regToast, schedVars, roleVars, pendingVars>>

(***************************************************************************)
(* PunchClockComponent                                                      *)
(***************************************************************************)
MaxClock == 3        \* the wall clock runs from 0 to MaxClock
MaxPunchOps == 4     \* history-writing user actions per run
MAX_HISTORY == 30

PauseTexts == {<<>>, <<" ">>, <<"n">>}

PunchFresh == [view |-> "constructed", isWorking |-> FALSE, isPaused |-> FALSE,
               lastIn |-> None, pausedAt |-> None, totalPausedMs |-> 0, now |-> 0,
               pauseDialogVisible |-> FALSE, pauseText |-> <<>>, live |-> None,
               timerId |-> FALSE, ops |-> 0]

\* the subtraction of a running pause, without the isPaused() test
ElapsedMsIgnoresIsPaused(p) ==
  (p.now - Get(p.lastIn) - p.totalPausedMs)
    - (IF p.pausedAt # None THEN p.now - Get(p.pausedAt) ELSE 0)

\* counter: ms = now - start - totalPausedMs, minus the running pause
ElapsedMs(p) ==
  (p.now - Get(p.lastIn) - p.totalPausedMs)
    - (IF p.isPaused /\ p.pausedAt # None THEN p.now - Get(p.pausedAt) ELSE 0)

\* counter: what the central counter shows
Counter(p) ==
  IF ~p.isWorking THEN [kind |-> "clock", value |-> p.now]
  ELSE IF p.lastIn = None THEN [kind |-> "placeholder", value |-> 0]
  ELSE IF ElapsedMs(p) < 0 THEN [kind |-> "placeholder", value |-> 0]
  ELSE [kind |-> "elapsed", value |-> ElapsedMs(p)]

\* pushEvent: newest first, at most MAX_HISTORY entries
PushEvent(list, type, when, note) ==
  LET next == <<[id |-> when, type |-> type, at |-> when,
                 note |-> IF note # None /\ Len(Get(note)) > 0 THEN note ELSE None]>>
              \o list
  IN IF Len(next) > MAX_HISTORY THEN SubSeq(next, 1, MAX_HISTORY) ELSE next

\* ngOnInit: setInterval(..., 1000)
PunchNgOnInit ==
  /\ punch.view = "constructed"
  /\ punch' = [punch EXCEPT !.view = "active", !.timerId = TRUE]
  /\ UNCHANGED <<authVars, localStorage, guardVars, logoutVars, nav, httpVars, fpVars,
                 loginVars, clock, events, announceQ, regVars, schedVars, roleVars, pendingVars>>

\* time passes
ClockAdvance ==
  /\ clock < MaxClock
  /\ clock' = clock + 1
  /\ UNCHANGED <<authVars, localStorage, guardVars, logoutVars, nav, httpVars, fpVars,
                 loginVars, punch, events, announceQ, regVars, schedVars, roleVars, pendingVars>>

\* the interval fires: this.now.set(new Date())
TimerTick ==
  /\ punch.timerId
  /\ punch' = [punch EXCEPT !.now = clock]
  /\ UNCHANGED <<authVars, localStorage, guardVars, logoutVars, nav, httpVars, fpVars,
                 loginVars, clock, events, announceQ, regVars, schedVars, roleVars, pendingVars>>

\* announce(msg): live.set(''), then setTimeout(() => live.set(msg), 30)
Announce(p, msg) == [p EXCEPT !.live = None]

ToggleWork ==
  /\ punch.view = "active"
  /\ punch.ops < MaxPunchOps
  /\ IF ~punch.isWorking
       THEN /\ punch' = Announce([punch EXCEPT !.lastIn = Some(clock), !.totalPausedMs = 0,
                                               !.isWorking = TRUE, !.isPaused = FALSE,
                                               !.ops = @ + 1], "Entrada")
            /\ events' = PushEvent(events, "Entrada", clock, None)
            /\ announceQ' = Append(announceQ, [text |-> "Entrada registrada", at |-> Some(clock)])
       ELSE /\ punch' = Announce([punch EXCEPT !.isWorking = FALSE, !.isPaused = FALSE,
                                               !.ops = @ + 1], "Salida")
            /\ events' = PushEvent(events, "Salida", clock, None)
            /\ announceQ' = Append(announceQ, [text |-> "Salida registrada", at |-> Some(clock)])
  /\ UNCHANGED <<authVars, localStorage, guardVars, logoutVars, nav, httpVars, fpVars,
                 loginVars, clock, regVars, schedVars, roleVars, pendingVars>>

OpenPause ==
  /\ punch.view = "active"
  /\ ~(~punch.isWorking \/ punch.isPaused)
  /\ punch' = [punch EXCEPT !.pauseText = <<>>, !.pauseDialogVisible = TRUE]
  /\ UNCHANGED <<authVars, localStorage, guardVars, logoutVars, nav, httpVars, fpVars,
                 loginVars, clock, events, announceQ, regVars, schedVars, roleVars, pendingVars>>

\* the user types the pause note ([(ngModel)]="pauseText")
SetPauseText(t) ==
  /\ punch.view = "active"
  /\ punch.pauseDialogVisible
  /\ punch' = [punch EXCEPT !.pauseText = t]
  /\ UNCHANGED <<authVars, localStorage, guardVars, logoutVars, nav, httpVars, fpVars,
                 loginVars, clock, events, announceQ, regVars, schedVars, roleVars, pendingVars>>

ConfirmPause ==
  /\ punch.view = "active"
  /\ punch.ops < MaxPunchOps
  /\ Len(Trim(punch.pauseText)) > 0
  /\ punch' = Announce([punch EXCEPT !.isPaused = TRUE, !.pausedAt = Some(clock),
                                     !.pauseDialogVisible = FALSE, !.ops = @ + 1], "Pausa")
  /\ events' = PushEvent(events, "Pausa", clock, Some(Trim(punch.pauseText)))
  /\ announceQ' = Append(announceQ, [text |-> "Pausa registrada.", at |-> None])
  /\ UNCHANGED <<authVars, localStorage, guardVars, logoutVars, nav, httpVars, fpVars,
                 loginVars, clock, regVars, schedVars, roleVars, pendingVars>>

ResumeWork ==
  /\ punch.view = "active"
  /\ punch.ops < MaxPunchOps
  /\ ~(~punch.isPaused \/ punch.pausedAt = None)
  /\ punch' = Announce([punch EXCEPT !.totalPausedMs = @ + (clock - Get(punch.pausedAt)),
                                     !.isPaused = FALSE, !.pausedAt = None,
                                     !.ops = @ + 1], "Reanudación")
  /\ events' = PushEvent(events, "Reanudación", clock, None)
  /\ announceQ' = Append(announceQ, [text |-> "Reanudación registrada.", at |-> None])
  /\ UNCHANGED <<authVars, localStorage, guardVars, logoutVars, nav, httpVars, fpVars,
                 loginVars, clock, regVars, schedVars, roleVars, pendingVars>>

\* a 30 ms announce timeout fires: live.set(msg)
AnnounceFire ==
  /\ Len(announceQ) > 0
  /\ punch' = [punch EXCEPT !.live = Some(Head(announceQ))]
  /\ announceQ' = Tail(announceQ)
  /\ UNCHANGED <<authVars, localStorage, guardVars, logoutVars, nav, httpVars, fpVars,
                 loginVars, clock, events, regVars, schedVars, roleVars, pendingVars>>

\* ngOnDestroy: clearInterval(this.timerId)
PunchNgOnDestroy ==
  /\ punch.view = "active"
  /\ punch' = [punch EXCEPT !.view = "destroyed", !.timerId = FALSE]
  /\ UNCHANGED <<authVars, localStorage, guardVars, logoutVars, nav, httpVars, fpVars,
                 loginVars, clock, events, announceQ, regVars, schedVars, roleVars, pendingVars>>

(***************************************************************************)
(* ScheduleOverviewComponent                                                *)
(***************************************************************************)
MaxEntries == 2      \* longest entries input
MaxMarks == 2        \* cdr.markForCheck() calls counted per run

\* "HH:mm" strings, written as their digits HH (all on the hour); strings are
\* compared character by character, as <, >= and localeCompare do
T00 == <<0, 0>>
T08 == <<0, 8>>
T09 == <<0, 9>>
T10 == <<1, 0>>
Times == {T08, T09, T10}

RECURSIVE StrLess(_, _)
StrLess(a, b) ==
  IF Len(b) = 0 THEN FALSE
  ELSE IF Len(a) = 0 THEN TRUE
  ELSE IF Head(a) # Head(b) THEN Head(a) < Head(b)
  ELSE StrLess(Tail(a), Tail(b))

StrLeq(a, b) == a = b \/ StrLess(a, b)

\* a.localeCompare(b)
LocaleCompare(a, b) == IF a = b THEN 0 ELSE IF StrLess(a, b) THEN 0 - 1 ELSE 1

\* ScheduleEntry values given to the input: start, time and end are optional
ScheduleEntries ==
  {[start |-> st[1], time |-> st[2], end |-> en] :
     st \in {<<None, None>>, <<None, Some(T09)>>, <<Some(T10), Some(T09)>>},
     en \in {None, Some(T09), Some(T10)}}

\* normalize(e): start = e.start ?? e.time ?? '00:00'
Normalize(e) ==
  [e EXCEPT !.start = Nullish(e.start, Nullish(e.time, Some(T00)))]

\* a string in a condition: neither undefined nor empty
Truthy(o) == o # None /\ Len(Get(o)) > 0

\* getStatus(row) when nowHHmm() is `now`
GetStatus(row, now) ==
  LET start == Nullish(row.start, Nullish(row.time, Some(<<>>)))
      end == row.end
  IN IF Truthy(end) /\ StrLeq(Get(end), now) THEN "done"
     ELSE IF Truthy(start) /\ (IF ~Truthy(end)
                                 THEN now = Get(start)
                                 ELSE StrLeq(Get(start), now) /\ StrLess(now, Get(end)))
       THEN "on"
     ELSE "upcoming"

StatusOrder(s) == IF s = "on" THEN 0 ELSE IF s = "upcoming" THEN 1 ELSE 2

\* a comparator that ignores the status
CompareByStartOnly(a, b, now) == LocaleCompare(Get(a.start), Get(b.start))

\* the comparator of sortByStatus
Compare(a, b, now) ==
  IF StatusOrder(GetStatus(a, now)) # StatusOrder(GetStatus(b, now))
    THEN StatusOrder(GetStatus(a, now)) - StatusOrder(GetStatus(b, now))
    ELSE LocaleCompare(Get(a.start), Get(b.start))

\* Array.prototype.sort is stable: x goes behind every element it does not precede
RECURSIVE InsertSorted(_, _, _)
InsertSorted(x, list, now) ==
  IF Len(list) = 0 THEN <<x>>
  ELSE IF Compare(x, Head(list), now) < 0 THEN <<x>> \o list
  ELSE <<Head(list)>> \o InsertSorted(x, Tail(list), now)

RECURSIVE SortByStatus(_, _)
SortByStatus(list, now) ==
  IF Len(list) = 0 THEN <<>>
  ELSE InsertSorted(list[Len(list)], SortByStatus(SubSeq(list, 1, Len(list) - 1), now), now)

SchedFresh == [view |-> "new", timeoutPending |-> FALSE, timer |-> FALSE,
               intervalActive |-> FALSE, marks |-> 0,
               input |-> <<>>, now |-> T08, entries |-> <<>>]

\* the parent grows the array it binds to [entries]
SchedInputPush(e) ==
  /\ sched.view # "destroyed"
  /\ Len(sched.input) < MaxEntries
  /\ sched' = [sched EXCEPT !.input = Append(@, e)]
  /\ UNCHANGED <<authVars, localStorage, guardVars, logoutVars, nav, httpVars, fpVars,
                 loginVars, punchVars, regVars, roleVars, pendingVars>>

\* set entries(value): normalize, then sort by the status at nowHHmm() = now
SchedSetEntries(now) ==
  /\ sched.view # "destroyed"
  /\ sched' = [sched EXCEPT
                 !.now = now,
                 !.entries = SortByStatus([i \in 1..Len(sched.input) |->
                                             Normalize(sched.input[i])], now)]
  /\ UNCHANGED <<authVars, localStorage, guardVars, logoutVars, nav, httpVars, fpVars,
                 loginVars, punchVars, regVars, roleVars, pendingVars>>

\* ngOnInit: setTimeout(..., msToNextMinute)
SchedNgOnInit ==
  /\ sched.view = "new"
  /\ sched' = [sched EXCEPT !.view = "alive", !.timeoutPending = TRUE]
  /\ UNCHANGED <<authVars, localStorage, guardVars, logoutVars, nav, httpVars, fpVars,
                 loginVars, punchVars, regVars, roleVars, pendingVars>>

\* the timeout fires: markForCheck(), this._timer = setInterval(..., 60_000)
SchedTimeoutFire ==
  /\ sched.timeoutPending
  /\ sched' = [sched EXCEPT !.timeoutPending = FALSE, !.timer = TRUE,
                            !.intervalActive = TRUE,
                            !.marks = @ + 1]
  /\ UNCHANGED <<authVars, localStorage, guardVars, logoutVars, nav, httpVars, fpVars,
                 loginVars, punchVars, regVars, roleVars, pendingVars>>

\* the interval fires: markForCheck()
SchedIntervalTick ==
  /\ sched.intervalActive
  /\ sched.marks < MaxMarks
  /\ sched' = [sched EXCEPT !.marks = @ + 1]
  /\ UNCHANGED <<authVars, localStorage, guardVars, logoutVars, nav, httpVars, fpVars,
                 loginVars, punchVars, regVars, roleVars, pendingVars>>

\* ngOnDestroy: if (this._timer) clearInterval(this._timer)
SchedNgOnDestroy ==
  /\ sched.view = "alive"
  /\ sched' = [sched EXCEPT !.view = "destroyed",
                            !.intervalActive = IF sched.timer THEN FALSE ELSE @]
  /\ UNCHANGED <<authVars, localStorage, guardVars, logoutVars, nav, httpVars, fpVars,
                 loginVars, punchVars, regVars, roleVars, pendingVars>>

(***************************************************************************)
(* roleGuard (role.guard.ts) and the role reads of AuthService              *)
(***************************************************************************)
MaxRoles == 2        \* longest roles claim and longest allowedRoles list

Roles == {"admin", "employee"}

\* the custom claims of the ID token: role is absent or a string, roles is
\* absent (not an array) or a list
RoleClaims ==
  [role  : {None} \cup {Some(r) : r \in Roles \cup {""}},
   roles : {None} \cup {Some(l) : l \in SeqsUpTo(Roles, MaxRoles)}]

\* list.includes(x), set.has(x)
Includes(list, x) == \E i \in 1..Len(list) : list[i] = x

\* getUserRole(): null without a user; roles[0] of a non-empty roles list,
\* else claims.role ?? null
GetUserRole(user, claims) ==
  IF user = None THEN None
  ELSE IF claims.roles # None /\ Len(Get(claims.roles)) > 0
         THEN Some(Get(claims.roles)[1])
         ELSE claims.role

\* hasAnyRole(wanted): false without a user; the set is claims.roles when it
\* is an array, else [claims.role] when that is truthy, else empty
HasAnyRole(user, claims, wanted) ==
  IF user = None THEN FALSE
  ELSE LET set == IF claims.roles # None THEN Get(claims.roles)
                  ELSE IF claims.role # None /\ Get(claims.role) # ""
                         THEN <<Get(claims.role)>>
                         ELSE <<>>
       IN \E i \in 1..Len(wanted) : Includes(set, wanted[i])

\* roleGuard(allowedRoles): role && allowedRoles.includes(role) ? true
\*                                   : createUrlTree(['/unauthorized'])
RoleGuard(user, claims, allowedRoles) ==
  LET role == GetUserRole(user, claims)
  IN IF role # None /\ Get(role) # "" /\ Includes(allowedRoles, Get(role))
       THEN Allow
       ELSE Redirect("/unauthorized", None)

RoleFresh(claims) == [claims |-> claims, allowed |-> <<>>, guard |-> NoResult,
                      wanted |-> <<>>, hasAny |-> None]

\* the router evaluates roleGuard(allowedRoles) once auth is ready
RoleGuardRun(allowedRoles) ==
  /\ readyEmitted
  /\ roleCheck' = [roleCheck EXCEPT !.allowed = allowedRoles,
                     !.guard = RoleGuard(currentUser, roleCheck.claims, allowedRoles)]
  /\ UNCHANGED <<authVars, localStorage, guardVars, logoutVars, nav, httpVars, fpVars,
                 loginVars, punchVars, regVars, schedVars, pendingVars>>

\* a caller awaits hasAnyRole(wanted)
HasAnyRoleCall(wanted) ==
  /\ roleCheck' = [roleCheck EXCEPT !.wanted = wanted,
                     !.hasAny = Some(HasAnyRole(currentUser, roleCheck.claims, wanted))]
  /\ UNCHANGED <<authVars, localStorage, guardVars, logoutVars, nav, httpVars, fpVars,
                 loginVars, punchVars, regVars, schedVars, pendingVars>>

(***************************************************************************)
(* PendingRequestsComponent (pending-requests.component.ts)                 *)
(***************************************************************************)
MaxItems == 2        \* longest requests input
MaxDecisions == 2    \* onApprove / onReject calls per run

\* ids are numbers or strings; === tells the number 1 from the string '1'
RequestIds == {<<"number", 1>>, <<"string", 1>>}
Employees == {"ana", "bob"}

\* a PendingRequest as the parent passes it: status is optional
ParentRequests == [id : RequestIds, employee : Employees,
                   status : {None, Some("approved")}]

\* the value bound to [requests]: null / undefined or a list
RequestInputs == {None} \cup {Some(l) : l \in SeqsUpTo(ParentRequests, MaxItems)}

\* {...r, status: s}
WithStatus(r, s) == [r EXCEPT !.status = Some(s)]

\* the requests setter: (value ?? []).map(r => ({...r, status: r.status ?? 'pending'}))
MapRequests(value) ==
  LET list == IF value # None THEN Get(value) ELSE <<>>
  IN [i \in 1..Len(list) |-> [list[i] EXCEPT !.status = Nullish(@, Some("pending"))]]

\* a map that sets the status of every item, whatever its id
MarkAll(list, r, s) == [i \in 1..Len(list) |-> WithStatus(list[i], s)]

\* list.map(x => x.id === r.id ? {...x, status} : x)
MarkById(list, r, s) ==
  [i \in 1..Len(list) |-> IF list[i].id = r.id THEN WithStatus(list[i], s) ELSE list[i]]

PendingFresh(value) == [value |-> value, items |-> <<>>, emitted |-> <<>>, arg |-> None,
                        decisions |-> 0]

\* the parent's binding sets the requests input
PendingSetRequests ==
  /\ pending' = [pending EXCEPT !.items = MapRequests(pending.value)]
  /\ UNCHANGED <<authVars, localStorage, guardVars, logoutVars, nav, httpVars, fpVars,
                 loginVars, punchVars, regVars, schedVars, roleVars>>

\* the requests a button of the list, or a caller holding its own copy, passes
Decidable == {pending.items[i] : i \in 1..Len(pending.items)}
               \cup [id : RequestIds, employee : {"ana"}, status : {None}]

Decide(r, event, s) ==
  /\ pending.decisions < MaxDecisions
  /\ pending' = [pending EXCEPT !.items = MarkById(@, r, s),
                                !.emitted = Append(@, [event |-> event,
                                                       payload |-> WithStatus(r, s)]),
                                !.arg = Some(r),
                                !.decisions = @ + 1]
  /\ UNCHANGED <<authVars, localStorage, guardVars, logoutVars, nav, httpVars, fpVars,
                 loginVars, punchVars, regVars, schedVars, roleVars>>

OnApprove(r) == Decide(r, "approve", "approved")

OnReject(r) == Decide(r, "reject", "rejected")

(***************************************************************************)
(* Initial states of the components                                         *)
(***************************************************************************)
\* AuthService and the provider right after construction.  localStorage
\* outlives the page: 'token' may still hold what an earlier visit wrote.
AuthInit ==
  /\ currentUser = None
  /\ providerReady = FALSE
  /\ tokenSubject = None
  /\ readyEmitted = FALSE
  /\ pendingCb = [u \in Users |-> 0]
  /\ lastCb = [seq |-> 0, user |-> None]
  /\ firstCb = [st |-> "none", user |-> None]
  /\ evCount = 0
  /\ guard = GuardIdle
  /\ logoutPc = "idle"
  /\ signOutOk = TRUE
  /\ logoutCleaned = FALSE
  /\ nav = <<>>

HttpInit ==
  /\ http = HttpIdle
  /\ sends = <<>>
  /\ lookups = 0
  /\ reqCount = 0

FpInit ==
  /\ fp = FpFresh
  /\ fpMessages = <<>>

LoginInit ==
  /\ login = LoginBlank
  /\ loginCalls = <<>>
  /\ snackBar = None
  /\ persistence = "default"
  /\ signIns = <<>>

PunchInit ==
  /\ clock = 0
  /\ punch = PunchFresh
  /\ events = <<>>
  /\ announceQ = <<>>

RegInit ==
  /\ page = "login"
  /\ reg = RegBlank
  /\ regToast = None
  /\ verify = VerifyBlank
  /\ verifyMessages = <<>>
  /\ unhandled = {}

SchedInit ==
  /\ sched = SchedFresh

RoleInit ==
  /\ roleCheck = RoleFresh([role |-> None, roles |-> None])

PendingInit ==
  /\ pending = PendingFresh(None)

(***************************************************************************)
(* Spec: AuthService, provider, guards, logout                              *)
(***************************************************************************)
Init ==
  /\ AuthInit
  /\ localStorage \in [token : {None} \cup {Some(t) : t \in Tokens},
                       rememberedEmail : {None}]
  /\ HttpInit /\ FpInit /\ LoginInit /\ PunchInit /\ RegInit /\ SchedInit /\ RoleInit /\ PendingInit

Next ==
  \/ \E s \in {None} \cup {Some(u) : u \in Users} : ProviderRestore(s)
  \/ \E u \in Users : ProviderSignIn(u)
  \/ ProviderSignOut
  \/ ProviderRefresh
  \/ \E u \in Users : CbTokenResolved(u)
  \/ \E u \in Users : CbTokenRejected(u)
  \/ \E url \in PrivateUrls : GuardStart("authGuard", url)
  \/ \E url \in PublicUrls : GuardStart("guestGuard", url)
  \/ GuardReady
  \/ \E resolved \in BOOLEAN : GuardSettle(resolved)
  \/ GuardDone
  \/ LayoutLogout
  \/ \E ok \in BOOLEAN : SignOutSettle(ok)
  \/ LogoutFinally
  \/ LayoutAfterLogout

Spec == Init /\ [][Next]_vars

(***************************************************************************)
(* SpecHttp: the interceptor, for each settled session                      *)
(***************************************************************************)
\* The state Spec reaches once the callback for `session` has completed and
\* nothing is in flight; 'rememberedEmail' is absent or one of `remembered`.
SessionSettled(session, remembered) ==
  /\ currentUser = session
  /\ providerReady = TRUE
  /\ tokenSubject = GetValidToken(session)
  /\ localStorage \in [token : {GetValidToken(session)},
                       rememberedEmail : {None} \cup {Some(e) : e \in remembered}]
  /\ readyEmitted = TRUE
  /\ pendingCb = [u \in Users |-> 0]
  /\ lastCb = [seq |-> 1, user |-> session]
  /\ firstCb = [st |-> "done", user |-> session]
  /\ evCount = 1
  /\ guard = GuardIdle
  /\ logoutPc = "idle"
  /\ signOutOk = TRUE
  /\ logoutCleaned = FALSE
  /\ nav = <<>>

InitHttp ==
  /\ \E s \in {None} \cup {Some(u) : u \in Users} : SessionSettled(s, {})
  /\ HttpInit /\ FpInit /\ LoginInit /\ PunchInit /\ RegInit /\ SchedInit /\ RoleInit /\ PendingInit

NextHttp ==
  \/ \E url \in Urls : Intercept(url)
  \/ \E resolved \in BOOLEAN : TokenSettle(resolved)
  \/ \E ok \in BOOLEAN : NextSettle(ok)
  \/ HttpDone

SpecHttp == InitHttp /\ [][NextHttp]_vars

(***************************************************************************)
(* Claims about the guards, the session mirror and logout (under Spec)      *)
(***************************************************************************)
AuthGuardDecided == guard.pc = "done" /\ guard.kind = "authGuard" /\ guard.result # Threw
GuestGuardDecided == guard.pc = "done" /\ guard.kind = "guestGuard" /\ guard.result # Threw

\* C1: whenever authGuard has decided for a requested URL U (it decides only
\* after authReady$ emitted) and getValidToken() gave no valid session token,
\* the decision is the redirect to /auth/login with returnUrl = U.
C1_NoSessionRedirectsWithReturnUrl ==
  (AuthGuardDecided /\ guard.valid = None)
    => guard.result = Redirect("/auth/login", Some(guard.url))

\* C2: authGuard permits navigation to a private route only if a valid session
\* existed at the check (a signed-in user whose ID token was retrieved); a
\* token that is only in the token holder or in localStorage never permits it.
C2_AllowOnlyWithValidSession ==
  (AuthGuardDecided /\ guard.result = Allow) => guard.valid # None

\* C3: guestGuard, decided for a public auth route after auth is ready, is the
\* redirect to /dashboard when a valid session token exists and true when
\* none exists.
C3_GuestGuardDecision ==
  (GuestGuardDecided /\ guard.url \in PublicUrls)
    => /\ guard.valid # None => guard.result = Redirect("/dashboard", None)
       /\ guard.valid = None => guard.result = Allow

\* C3 witness: guestGuard let a visitor through although a stale token is
\* still stored locally, and no user is signed in.
C3_Witness ==
  /\ GuestGuardDecided
  /\ guard.url = "/auth/login"
  /\ guard.valid = None
  /\ GetToken(tokenSubject, localStorage) # None
  /\ guard.result = Allow

\* C8: each session-change callback that runs to its end leaves tokenSubject
\* and localStorage 'token' agreeing with the session that callback reported:
\* the user's ID token when a user is present, null and absent when not.
C8_CallbackMirrorsSession ==
  [][lastCb' # lastCb =>
       /\ tokenSubject' = GetValidToken(lastCb'.user)
       /\ localStorage'.token = GetValidToken(lastCb'.user)]_vars

\* C8 witness: the signed-out callback completed while an earlier signed-in
\* callback was still awaiting its token, and cleared both places.
C8_Witness ==
  /\ lastCb.user = None
  /\ evCount >= 2
  /\ \E u \in Users : pendingCb[u] > 0
  /\ tokenSubject = None
  /\ localStorage.token = None

\* C9: at the step where AuthService.logout() settles, whether signOut resolved
\* or rejected, tokenSubject is null and localStorage 'token' is absent, so
\* getToken() returns null; and MainLayoutComponent.logout navigates to
\* /auth/login only after that cleanup has run.
C9_LogoutCleansBeforeNavigating ==
  [][/\ (logoutPc = "finally" /\ logoutPc' # "finally") =>
          /\ tokenSubject' = None
          /\ localStorage'.token = None
          /\ GetToken(tokenSubject', localStorage') = None
     /\ nav' # nav => (logoutCleaned /\ nav' = Append(nav, LoginNav))]_vars

\* C9 witness: signOut rejected, the user is still signed in at the provider,
\* and logout() has settled with the local state cleaned.
C9_Witness ==
  /\ logoutPc = "rejected"
  /\ ~signOutOk
  /\ currentUser # None
  /\ logoutCleaned
  /\ GetToken(tokenSubject, localStorage) = None

\* The provider delivers its first notification, and every await of the
\* callbacks and of the guards settles.
SpecFair ==
  /\ Init /\ [][Next]_vars
  /\ WF_vars(\E s \in {None} \cup {Some(u) : u \in Users} : ProviderRestore(s))
  /\ WF_vars(\E u \in Users : CbTokenResolved(u) \/ CbTokenRejected(u))
  /\ WF_vars(GuardReady)
  /\ WF_vars(\E resolved \in BOOLEAN : GuardSettle(resolved))

\* C19: authReady$ has emitted only if the callback of the first notification
\* has finished updating the token holder; once emitted its value stays
\* available to later subscribers; no guard reads the session or decides
\* before it has emitted; and every guard evaluation eventually returns a
\* decision.
C19_ReadyAfterFirstCallbackAndGuardsDecide ==
  /\ [](readyEmitted => firstCb.st = "done")
  /\ [][readyEmitted => readyEmitted']_vars
  /\ [](guard.pc \in {"awaitValidToken", "done"} => readyEmitted)
  /\ (guard.pc = "waitReady") ~> (guard.pc = "done" /\ guard.result # Threw)

\* C20: overlapping session-change callbacks leave no stale token: once the
\* provider's latest reported state is signed-out and every callback and
\* logout() have completed, tokenSubject is null and localStorage 'token' is
\* absent.
C20_NoStaleTokenAfterSignOut ==
  (/\ providerReady /\ currentUser = None
   /\ \A u \in Users : pendingCb[u] = 0
   /\ logoutPc \notin {"awaitSignOut", "finally"})
    => (tokenSubject = None /\ localStorage.token = None)

(***************************************************************************)
(* Claims about the interceptor (under SpecHttp)                            *)
(***************************************************************************)
\* C6: a request handed on carries 'Authorization: Bearer <token>' exactly when
\* its URL starts with the API base and getValidToken() yielded a token; a
\* request outside the API base is forwarded unchanged with no token lookup.
C6_BearerExactlyForApiWithToken ==
  \A i \in 1..Len(sends) :
    /\ sends[i].url = http.url
    /\ (sends[i].authorization # None) <=>
         (StartsWith(http.url, ApiBase) /\ http.tok # None)
    /\ sends[i].authorization # None => sends[i].authorization = Some(Bearer(Get(http.tok)))
    /\ ~StartsWith(http.url, ApiBase) => (lookups = 0 /\ sends[i] = PlainReq(http.url))

\* C7: the interceptor hands a request to the next handler at most once, and a
\* failed token lookup or a failed request is surfaced to the caller.
C7_NeverResent ==
  /\ Len(sends) <= 1
  /\ (http.pc = "done" /\ http.failed) => http.result = "error"

(***************************************************************************)
(* SpecForgot: the forgot-password form                                     *)
(***************************************************************************)
InitForgot ==
  /\ SessionSettled(None, {})
  /\ HttpInit /\ FpInit /\ LoginInit /\ PunchInit /\ RegInit /\ SchedInit /\ RoleInit /\ PendingInit

NextForgot ==
  \/ \E e \in Emails : FpSetEmail(e)
  \/ FpSubmit
  \/ \E outcome \in ResetOutcomes : FpResetSettle(outcome)
  \/ FpTimerFire

SpecForgot == InitForgot /\ [][NextForgot]_vars

\* C4: for a valid submitted email the visible outcome of onSubmit does not
\* depend on how requestPasswordReset settled (sent, auth/user-not-found, any
\* other error): every run adds the same success notification, schedules the
\* same navigation to /auth/login, and ends with loading = false.
C4_ResetOutcomeNotVisible ==
  /\ \A i \in 1..Len(fpMessages) : fpMessages[i] = SuccessToast
  /\ Len(fpMessages) = fp.settled
  /\ \A i \in 1..Len(nav) : nav[i] = LoginNav
  /\ Len(nav) + fp.timers = fp.settled
  /\ fp.pc = "idle" => fp.loading = FALSE
  /\ fp.errorMessage = None

\* C4 witness: the reset request failed with another error, the toast is the
\* success one, the navigation has happened and loading is false.
C4_Witness ==
  /\ fp.outcome = "auth/network-request-failed"
  /\ fp.sentTo = Some(<<"a", "@", "a">>)
  /\ fp.settled = 1 /\ fp.timers = 0
  /\ fpMessages = <<SuccessToast>>
  /\ nav = <<LoginNav>>
  /\ fp.loading = FALSE

(***************************************************************************)
(* SpecLogin: the login form                                                *)
(***************************************************************************)
\* 'rememberedEmail' is absent or holds what an earlier successful login stored
InitLogin ==
  /\ SessionSettled(None, {<<"a", "@", "a">>})
  /\ HttpInit /\ FpInit /\ PunchInit /\ RegInit /\ SchedInit /\ RoleInit /\ PendingInit
  /\ loginCalls = <<>>
  /\ snackBar = None
  /\ persistence = "default"
  /\ signIns = <<>>
  /\ login = LoginConstructed(localStorage)

NextLogin ==
  \/ \E e \in LoginEmails : LoginSetEmail(e)
  \/ \E p \in Passwords : LoginSetPassword(p)
  \/ \E r \in BOOLEAN : LoginSetRememberMe(r)
  \/ LoginSubmit
  \/ \E ok \in BOOLEAN : LoginSettle(ok)
  \/ LoginReopen

SpecLogin == InitLogin /\ [][NextLogin]_vars

\* C10: a submission of an invalid login form (for example with an email that
\* is not syntactically valid) does not call AuthService.login, does not
\* navigate, leaves loading false and localStorage unchanged, and the email
\* control is in error whenever the email is the invalid field.
C10_InvalidLoginSubmitDoesNothing ==
  [][(/\ login'.submits # login.submits
      /\ (EmailErrors(login.email) # {} \/ PasswordErrors(login.password) # {}))
       => /\ loginCalls' = loginCalls
          /\ nav' = nav
          /\ snackBar' = snackBar
          /\ login'.loading = FALSE /\ login'.pc = "idle"
          /\ localStorage' = localStorage
          /\ login'.email = login.email
          /\ ~EmailPattern(login.email) => EmailErrors(login'.email) # {}]_vars

\* C10 witness: a form with a well-formed password and an email without a
\* domain was submitted, and nothing was sent.
C10_Witness ==
  /\ login.submits = 1
  /\ login.email = <<"a", "@">>
  /\ PasswordErrors(login.password) = {}
  /\ loginCalls = <<>>
  /\ nav = <<>>
  /\ login.loading = FALSE

\* C11: when AuthService.login resolves for a valid submission, onSubmit issues
\* one navigation, to /dashboard; when it rejects, onSubmit issues no
\* navigation and sets errorMessage.
C11_ResolvedNavigatesRejectedSetsError ==
  [][(login.pc = "awaitLogin" /\ login'.pc = "idle") =>
       /\ login'.result \in {"resolved", "rejected"}
       /\ login'.result = "resolved" =>
            /\ Len(nav') = Len(nav) + 1
            /\ SubSeq(nav', 1, Len(nav)) = nav
            /\ nav'[Len(nav')].path = "/dashboard"
       /\ login'.result = "rejected" =>
            /\ nav' = nav
            /\ login'.errorMessage # None]_vars

\* C11 witness: a first submission resolved and navigated to /dashboard, a
\* second one was rejected: no further navigation, errorMessage set.
C11_Witness ==
  /\ login.submits = 2
  /\ Len(loginCalls) = 2
  /\ login.pc = "idle"
  /\ login.result = "rejected"
  /\ login.errorMessage # None
  /\ Len(nav) = 1 /\ nav[1].path = "/dashboard"

\* C15: "remember me" selects the persistence of the session: the sign-in of a
\* submission with rememberMe checked is made under local persistence, with
\* rememberMe unchecked under session persistence, the mode being selected
\* before signInWithEmailAndPassword is called.
C15_RememberMeSelectsPersistence ==
  login.pc = "awaitLogin" =>
    /\ Len(signIns) > 0
    /\ signIns[Len(signIns)].persistence =
         (IF Get(login.value).rememberMe THEN "local" ELSE "session")

\* C16: after a successful login with rememberMe checked, localStorage
\* 'rememberedEmail' is the submitted email, and with rememberMe unchecked the
\* key is absent; an invalid or failed submission leaves the key unchanged; a
\* newly constructed LoginComponent pre-fills the remembered email with
\* rememberMe = true.
C16_RememberedEmailSavedAndCleared ==
  [][/\ (login.pc = "awaitLogin" /\ login'.pc = "idle" /\ login'.result = "resolved")
          => localStorage'.rememberedEmail =
               (IF Get(login.value).rememberMe
                  THEN Some(loginCalls[Len(loginCalls)].email) ELSE None)
     /\ (login.pc = "awaitLogin" /\ login'.pc = "idle" /\ login'.result = "rejected")
          => localStorage' = localStorage
     /\ (login'.submits # login.submits)
          => localStorage' = localStorage
     /\ (login.pc = "idle" /\ login'.pc = "idle" /\ login'.submits = login.submits
           /\ login.result # "none" /\ login'.result = "none")
          => IF localStorage.rememberedEmail # None
               THEN login'.email = Get(localStorage.rememberedEmail) /\ login'.rememberMe
               ELSE login'.email = <<>> /\ ~login'.rememberMe]_vars

\* C16 witness: a login with rememberMe checked succeeded, and the login view
\* constructed afterwards shows the submitted email with rememberMe checked.
C16_Witness ==
  /\ login.submits = 1 /\ Len(loginCalls) = 1
  /\ login.pc = "idle" /\ login.result = "none"
  /\ snackBar # None /\ Get(snackBar).panelClass = "snack-success"
  /\ localStorage.rememberedEmail = Some(loginCalls[1].email)
  /\ login.email = loginCalls[1].email
  /\ login.rememberMe

(***************************************************************************)
(* SpecLoginRoute: a visitor without a session is blocked by authGuard at a *)
(* private URL, is sent to the login route, and logs in                     *)
(***************************************************************************)
InitLoginRoute ==
  /\ SessionSettled(None, {<<"a", "@", "a">>})
  /\ localStorage.rememberedEmail # None
  /\ HttpInit /\ FpInit /\ PunchInit /\ RegInit /\ SchedInit /\ RoleInit /\ PendingInit
  /\ loginCalls = <<>>
  /\ snackBar = None
  /\ persistence = "default"
  /\ signIns = <<>>
  /\ login = LoginConstructed(localStorage)

NextLoginRoute ==
  \/ \E url \in PrivateUrls : GuardStart("authGuard", url)
  \/ GuardReady
  \/ LoginOpenedByRedirect
  \/ \E p \in Passwords : LoginSetPassword(p)
  \/ \E r \in BOOLEAN : LoginSetRememberMe(r)
  \/ LoginSubmit
  \/ \E ok \in BOOLEAN : LoginSettle(ok)

SpecLoginRoute == InitLoginRoute /\ [][NextLoginRoute]_vars

\* C12: a successful login navigates to /dashboard, or, when the login route
\* was opened with a returnUrl query parameter (set by authGuard for the
\* blocked private URL U), to that returnUrl.
C12_SuccessfulLoginReturnsToBlockedUrl ==
  [][(login.pc = "awaitLogin" /\ login'.pc = "idle" /\ login'.result = "resolved") =>
       /\ Len(nav') = Len(nav) + 1
       /\ nav'[Len(nav')].path =
            (IF login.returnUrl # None THEN Get(login.returnUrl) ELSE "/dashboard")]_vars

(***************************************************************************)
(* SpecSubmit: the submit handlers of the auth views (login, register,      *)
(* forgot-password, verify-email); each run stays on one view               *)
(***************************************************************************)
ValidEmail == <<"a", "@", "a">>

InitSubmit ==
  \* the guest views are shown without a session, verify-email with one
  /\ page \in {"login", "register", "forgot", "verify"}
  /\ SessionSettled(IF page = "verify" THEN Some("u1") ELSE None, {})
  /\ HttpInit /\ FpInit /\ LoginInit /\ PunchInit /\ SchedInit /\ RoleInit /\ PendingInit
  /\ reg = RegBlank
  /\ regToast = None
  /\ verify = VerifyBlank
  /\ verifyMessages = <<>>
  /\ unhandled = {}

NextSubmit ==
  \/ page = "login" /\ \E e \in {ValidEmail, <<"a", "@">>} : LoginSetEmail(e)
  \/ page = "login" /\ LoginSetPassword(PasswordOfLength(PasswordMinLength))
  \/ page = "login" /\ LoginSubmit
  \/ \E ok \in BOOLEAN : LoginSettle(ok)
  \/ page = "forgot" /\ \E e \in {ValidEmail, <<"a">>} : FpSetEmail(e)
  \/ page = "forgot" /\ FpSubmit
  \/ \E outcome \in ResetOutcomes : FpResetSettle(outcome)
  \/ FpTimerFire
  \/ \E v \in RegNames : RegSetName(v)
  \/ \E v \in RegEmails : RegSetEmail(v)
  \/ \E v \in Passwords : RegSetPassword(v)
  \/ \E v \in Passwords : RegSetRepeatPassword(v)
  \/ RegSubmit
  \/ RegResolved
  \/ \E e \in ProviderErrors : RegRejected(e)
  \/ VerifyResend
  \/ \E ok \in BOOLEAN : VerifySettle(ok)

SpecSubmit == InitSubmit /\ [][NextSubmit]_vars

\* C13: every rejection of a provider call is caught in the handler that made
\* the call (login, register, password reset, resend of the verification
\* email) and a notification is added for it, so no rejection leaves a submit
\* handler; the register message is humanizeFirebaseError(code): the mapped
\* string for each known code, the generic one for any other or missing code.
C13_RejectionsCaughtAndSurfaced ==
  [][/\ unhandled' = unhandled
     /\ (login.pc = "awaitLogin" /\ login'.pc = "idle" /\ login'.result = "rejected")
          => (snackBar' # None /\ Get(snackBar').panelClass = "snack-error")
     /\ (fp.pc = "awaitReset" /\ fp'.pc = "idle" /\ fp'.outcome # "resolved")
          => Len(fpMessages') = Len(fpMessages) + 1
     /\ (reg.pc = "awaitRegister" /\ reg'.pc = "idle")
          => /\ regToast' # None
             /\ Get(regToast').severity = "error"
             /\ Get(reg'.outcome).code \in {Some(c) : c \in KnownCodes}
                  => Get(regToast').detail \notin {GenericMessage, ""}
             /\ Get(reg'.outcome).code \notin {Some(c) : c \in KnownCodes}
                  => Get(regToast').detail = GenericMessage
     /\ (verify'.resends # verify.resends /\ verify'.outcome = "rejected")
          => Len(verifyMessages') = Len(verifyMessages) + 1
     /\ (verify.pc = "awaitSend" /\ verify'.pc = "idle" /\ verify'.outcome = "rejected")
          => Len(verifyMessages') = Len(verifyMessages) + 1]_vars

\* Every provider call a handler awaits settles eventually.
SpecSubmitFair ==
  /\ InitSubmit /\ [][NextSubmit]_vars
  /\ WF_vars(\E ok \in BOOLEAN : LoginSettle(ok))
  /\ WF_vars(\E outcome \in ResetOutcomes : FpResetSettle(outcome))
  /\ WF_vars(RegResolved \/ \E e \in ProviderErrors : RegRejected(e))
  /\ WF_vars(\E ok \in BOOLEAN : VerifySettle(ok))

\* C14: once a submit handler (login, register, forgot-password, resend) has
\* set loading to true, loading returns to false when the provider call
\* settles, resolved or rejected, and the handler is no longer awaiting, so a
\* further submission is accepted.
C14_LoadingEventuallyCleared ==
  /\ login.loading ~> (~login.loading /\ login.pc = "idle")
  /\ fp.loading ~> (~fp.loading /\ fp.pc = "idle")
  /\ reg.loading ~> (~reg.loading /\ reg.pc # "awaitRegister")
  /\ verify.loading ~> (~verify.loading /\ verify.pc = "idle")

\* C14 witness: a registration was rejected, and the next submission of the
\* form was accepted and is in flight.
C14_Witness ==
  /\ reg.submits = 2
  /\ reg.outcome # None /\ Get(reg.outcome).kind = "rejected"
  /\ reg.pc = "awaitRegister"
  /\ reg.loading

(***************************************************************************)
(* SpecSchedule: the dashboard widgets with timers: ScheduleOverview with    *)
(* its input, and the life cycle of PunchClockComponent                     *)
(***************************************************************************)
InitSchedule ==
  /\ SessionSettled(Some("u1"), {})
  /\ HttpInit /\ FpInit /\ LoginInit /\ PunchInit /\ RegInit /\ SchedInit /\ RoleInit /\ PendingInit

NextSchedule ==
  \/ \E e \in ScheduleEntries : SchedInputPush(e)
  \/ \E now \in Times : SchedSetEntries(now)
  \/ SchedNgOnInit
  \/ SchedTimeoutFire
  \/ SchedIntervalTick
  \/ SchedNgOnDestroy
  \/ PunchNgOnInit
  \/ TimerTick
  \/ PunchNgOnDestroy

SpecSchedule == InitSchedule /\ [][NextSchedule]_vars

\* C17: after ngOnDestroy of PunchClockComponent or ScheduleOverviewComponent
\* none of the view's periodic timers is active, whenever the destruction
\* happens relative to the view's pending timeouts.
C17_NoPeriodicTimerAfterDestroy ==
  /\ sched.view = "destroyed" => ~sched.intervalActive
  /\ punch.view = "destroyed" => ~punch.timerId

\* the number of positions of list that hold e
Occurrences(list, e) == Cardinality({i \in 1..Len(list) : list[i] = e})

StateLabel(p) ==
  IF p.isPaused THEN "En pausa"
  ELSE IF p.isWorking THEN "En turno" ELSE "Fuera de turno"

(***************************************************************************)
(* SpecPunch: the punch clock under a non-decreasing wall clock             *)
(***************************************************************************)
InitPunch ==
  /\ SessionSettled(Some("u1"), {})
  /\ HttpInit /\ FpInit /\ LoginInit /\ PunchInit /\ RegInit /\ SchedInit /\ RoleInit /\ PendingInit

NextPunch ==
  \/ PunchNgOnInit
  \/ ClockAdvance
  \/ TimerTick
  \/ ToggleWork
  \/ OpenPause
  \/ \E t \in PauseTexts : SetPauseText(t)
  \/ ConfirmPause
  \/ ResumeWork
  \/ AnnounceFire
  \/ PunchNgOnDestroy

SpecPunch == InitPunch /\ [][NextPunch]_vars

C21_PausedOnlyWhileWorking ==
  /\ punch.isPaused => punch.isWorking
  /\ punch.isPaused => punch.pausedAt # None
  /\ StateLabel(punch) = "En pausa" => punch.isWorking

\* C22: pause time is excluded from the worked duration: while a pause is
\* running the elapsed duration counter computes does not change as the clock
\* advances, and resumeWork does not change it either, so the elapsed duration
\* right after a resume is the one of the moment the pause was confirmed.
C22_PauseExcludedFromElapsed ==
  [][(/\ punch.isWorking /\ punch.lastIn # None
      /\ punch.isPaused /\ punch.pausedAt # None
      /\ punch'.isWorking /\ punch'.lastIn = punch.lastIn
      /\ \/ punch'.isPaused /\ punch'.pausedAt = punch.pausedAt
         \/ ~punch'.isPaused /\ punch'.pausedAt = None)
       => ElapsedMs(punch') = ElapsedMs(punch)]_vars

\* what a guard returns in the current session state for a URL, once
\* getValidToken() has resolved
GuardOutcome(kind, url) ==
  GuardDecision(kind,
                GuardToken(kind, GetValidToken(currentUser),
                           GetToken(tokenSubject, localStorage)),
                url)

\* C23: for every session state after auth is ready, a token left in
\* localStorage or in the token holder without a signed-in user included,
\* authGuard and guestGuard never both redirect and exactly one of them
\* permits navigation, so routing between /auth/login and /dashboard settles.
C23_ExactlyOneGuardPermits ==
  readyEmitted =>
    \A private \in PrivateUrls, public \in PublicUrls :
      LET a == GuardOutcome("authGuard", private)
          g == GuardOutcome("guestGuard", public)
      IN /\ ~(a.kind = "urlTree" /\ g.kind = "urlTree")
         /\ (a = Allow) # (g = Allow)

(***************************************************************************)
(* SpecRole: role checks of a settled session, for every shape of claims    *)
(***************************************************************************)
InitRole ==
  /\ \E s \in {None, Some("u1")} : SessionSettled(s, {})
  /\ HttpInit /\ FpInit /\ LoginInit /\ PunchInit /\ RegInit /\ SchedInit /\ PendingInit
  /\ roleCheck \in {RoleFresh(c) : c \in RoleClaims}

NextRole ==
  \/ \E allowedRoles \in SeqsUpTo(Roles, MaxRoles) : RoleGuardRun(allowedRoles)
  \/ \E wanted \in SeqsUpTo(Roles, MaxRoles) : HasAnyRoleCall(wanted)

SpecRole == InitRole /\ [][NextRole]_vars

\* C24: roleGuard(allowedRoles) permits navigation exactly when
\* hasAnyRole(allowedRoles) is true for the current user, for every combination
\* of the claims 'role' and 'roles', and returns the redirect to /unauthorized
\* in every other case, without a signed-in user included.
C24_RoleGuardAgreesWithHasAnyRole ==
  (/\ roleCheck.guard # NoResult /\ roleCheck.hasAny # None
   /\ roleCheck.wanted = roleCheck.allowed)
    => /\ (roleCheck.guard = Allow) <=> Get(roleCheck.hasAny)
       /\ roleCheck.guard # Allow => roleCheck.guard = Redirect("/unauthorized", None)

(***************************************************************************)
(* SpecPending: the pending requests list under its input and its buttons   *)
(***************************************************************************)
InitPending ==
  /\ SessionSettled(Some("u1"), {})
  /\ HttpInit /\ FpInit /\ LoginInit /\ PunchInit /\ RegInit /\ SchedInit /\ RoleInit
  /\ pending \in {PendingFresh(v) : v \in RequestInputs}

NextPending ==
  \/ PendingSetRequests
  \/ \E r \in Decidable : OnApprove(r)
  \/ \E r \in Decidable : OnReject(r)

SpecPending == InitPending /\ [][NextPending]_vars

\* the status an event stands for
StatusOf(event) == IF event = "approve" THEN "approved" ELSE "rejected"

\* C25: every request set through the requests input without a status gets
\* status 'pending' (the others keep theirs); onApprove(r) / onReject(r) sets
\* 'approved' / 'rejected' on exactly the items whose id equals r.id, leaves
\* every other item, the length and the order of the list unchanged, and emits
\* exactly one approve / reject event carrying r with the new status.
C25_DefaultPendingAndDecideById ==
  [][/\ (pending'.items # pending.items /\ pending'.decisions = pending.decisions) =>
          LET list == IF pending.value = None THEN <<>> ELSE Get(pending.value)
          IN /\ Len(pending'.items) = Len(list)
             /\ \A i \in 1..Len(list) :
                  /\ pending'.items[i].id = list[i].id
                  /\ pending'.items[i].employee = list[i].employee
                  /\ pending'.items[i].status =
                       IF list[i].status = None THEN Some("pending") ELSE list[i].status
     /\ pending'.decisions # pending.decisions =>
          LET r == Get(pending'.arg)
              e == pending'.emitted[Len(pending'.emitted)]
              s == StatusOf(e.event)
          IN /\ Len(pending'.emitted) = Len(pending.emitted) + 1
             /\ SubSeq(pending'.emitted, 1, Len(pending.emitted)) = pending.emitted
             /\ e.payload = [id |-> r.id, employee |-> r.employee, status |-> Some(s)]
             /\ Len(pending'.items) = Len(pending.items)
             /\ \A i \in 1..Len(pending.items) :
                  pending'.items[i] =
                    IF pending.items[i].id = r.id
                      THEN [id |-> r.id, employee |-> pending.items[i].employee,
                            status |-> Some(s)]
                      ELSE pending.items[i]]_vars

\* C25 witness: a list of two requests with different ids, the second passed
\* without a status; the first was approved, the second still is 'pending'.
C25_Witness ==
  /\ pending.value # None /\ Len(Get(pending.value)) = 2
  /\ Get(pending.value)[2].status = None
  /\ Len(pending.items) = 2
  /\ pending.items[1].id # pending.items[2].id
  /\ pending.items[1].status = Some("approved")
  /\ pending.items[2].status = Some("pending")
  /\ Len(pending.emitted) = 1 /\ pending.emitted[1].event = "approve"
  /\ pending.arg = Some(pending.items[1])

====
